---- MODULE Spec2Model ----
(***************************************************************************)
(* Session / authentication state layer of journal-app-nuxt, modelled as   *)
(* one browser tab: the Pinia storage store (stores/storage.ts), the Pinia *)
(* auth store (stores/auth.ts), the useAuth composable that mirrors the    *)
(* session into cookies, the AuthService token checks, the API client's    *)
(* request(), and needsMigration().  Other tabs appear as writers of the   *)
(* shared localStorage whose storage events are queued for this tab.       *)
(*                                                                         *)
(* Strings are sequences of TLA+ strings: a token is a sequence of         *)
(* characters, a JSON text is a sequence of lexemes.  A JavaScript object  *)
(* is its insertion-ordered sequence of <<key, value lexeme>> pairs.       *)
(***************************************************************************)
EXTENDS Integers, Sequences, FiniteSets, TLC

VARIABLES
  token,                 \* auth.ts:16   ref<string | null>
  user,                  \* auth.ts:17   ref<User | null>
  lastActivity,          \* auth.ts:18   ref<number | null>
  isAuthenticated,       \* auth.ts:19   ref<boolean>
  isTokenExpiredCache,   \* auth.ts:23   value held by computed(): "dirty", "true", "false"
  shouldRefreshTokenCache, \* auth.ts:31 value held by computed()
  localStorage,          \* window.localStorage, shared by all tabs
  cache,                 \* storage.ts:23 in-memory mirror of localStorage
  cookies,               \* document.cookie entries auth_token / auth_user
  isAvailable,           \* storage.ts:20 ref<boolean>
  mode,                  \* how window.localStorage behaves in this browser
  watching,              \* storage.ts:234 the 'storage' listener is attached
  events,                \* StorageEvents dispatched to this tab, not yet handled
  now,                   \* Date.now()
  boot,                  \* the page load: plugins that have run, the migration run in progress
  hist,                  \* history: the session that expired, kept across operations
  last                   \* history: the most recent operation, its inputs and result

vars == <<token, user, lastActivity, isAuthenticated, isTokenExpiredCache,
          shouldRefreshTokenCache, localStorage, cache, cookies, isAvailable,
          mode, watching, events, now, boot, hist, last>>

----------------------------------------------------------------------------
(* Program constants                                                        *)

TIMEOUT == 60 * 60 * 1000
REFRESH_THRESHOLD == 15 * 60 * 1000

TOKEN == "auth_token"
USER == "auth_user"
LAST_ACTIVITY == "auth_last_activity"
STORAGE_KEYS == {TOKEN, USER, LAST_ACTIVITY}
DEPRECATED_KEYS == {"old_auth_token", "deprecated_user_data"}
KEYS == STORAGE_KEYS \cup DEPRECATED_KEYS
LOGIN == <<"/login">>
DASHBOARD == <<"/dashboard">>

COOKIE_KEYS == {TOKEN, USER}

----------------------------------------------------------------------------
(* Bounds of the model                                                      *)

MaxTicks == 3      \* the clock advances at most this many steps
MaxEvents == 3     \* storage events queued for this tab
MaxBurst == 3      \* interaction events in a row between two clock steps

StartTime == 1                 \* Date.now() at the first step (positive)
Step == TIMEOUT \div 2         \* the clock advances by half a timeout per Tick
EndTime == StartTime + MaxTicks * Step

----------------------------------------------------------------------------
(* JavaScript values                                                        *)

Null == <<"NUL">>              \* null where a string is expected
NullNum == -1                  \* null where a number is expected
NaN == -2                      \* the number NaN
NullV == [t |-> "null", v |-> <<>>]      \* null where an object is expected
Obj(pairs) == [t |-> "obj", v |-> pairs] \* an object with its own properties in order

\* truthiness of string | null, number | null, object | null
TruthyStr(s) == s # Null /\ s # <<>>
TruthyNum(n) == n # NullNum /\ n # NaN /\ n # 0
TruthyObj(o) == o.t = "obj"

HasKey(pairs, k) == \E i \in 1..Len(pairs) : pairs[i][1] = k
Get(pairs, k) == pairs[CHOOSE i \in 1..Len(pairs) : pairs[i][1] = k][2]
\* truthiness of a property value given as a lexeme; undefined when the key is missing
FalsyLexemes == {"0", "\"\"", "null", "false", "undefined"}
TruthyProp(o, k) == o.t = "obj" /\ HasKey(o.v, k) /\ Get(o.v, k) \notin FalsyLexemes

Digit == <<"0", "1", "2", "3", "4", "5", "6", "7", "8", "9">>

\* Number.prototype.toString() of a non-negative integer: its decimal digits
RECURSIVE toString(_)
toString(n) == IF n < 10 THEN <<Digit[n + 1]>>
               ELSE toString(n \div 10) \o <<Digit[(n % 10) + 1]>>

\* the same digits as one lexeme of a JSON text
RECURSIVE NumLexeme(_)
NumLexeme(n) == IF n < 10 THEN Digit[n + 1]
                ELSE NumLexeme(n \div 10) \o Digit[(n % 10) + 1]

IsDigit(c) == \E d \in 1..10 : Digit[d] = c
DigitVal(c) == (CHOOSE d \in 1..10 : Digit[d] = c) - 1

\* parseInt(s, 10): the value of the longest prefix of digits, NaN when there is none
RECURSIVE parseDigits(_, _, _)
parseDigits(s, i, acc) ==
  IF i > Len(s) \/ ~IsDigit(s[i]) THEN acc
  ELSE parseDigits(s, i + 1, acc * 10 + DigitVal(s[i]))
parseInt(s) == IF Len(s) = 0 \/ ~IsDigit(s[1]) THEN NaN ELSE parseDigits(s, 1, 0)

\* JSON.stringify of null or of a plain object: properties whose value is
\* undefined are left out, the others are written in insertion order
RECURSIVE stringifyPairs(_, _)
stringifyPairs(pairs, first) ==
  IF pairs = <<>> THEN <<>>
  ELSE IF Head(pairs)[2] = "undefined" THEN stringifyPairs(Tail(pairs), first)
  ELSE (IF first THEN <<>> ELSE <<",">>)
       \o <<Head(pairs)[1], ":", Head(pairs)[2]>>
       \o stringifyPairs(Tail(pairs), FALSE)
JSONstringify(o) ==
  IF o.t = "null" THEN <<"null">>
  ELSE <<"{">> \o stringifyPairs(o.v, TRUE) \o <<"}">>

\* JSON.parse: [ok |-> FALSE] stands for the SyntaxError it throws
Structural == {"{", "}", ":", ","}
WellFormedBody(b) ==
  \/ b = <<>>
  \/ /\ Len(b) % 4 = 3
     /\ \A i \in 1..Len(b) :
          CASE i % 4 = 1 -> b[i] \notin Structural
            [] i % 4 = 2 -> b[i] = ":"
            [] i % 4 = 3 -> b[i] \notin Structural
            [] OTHER     -> b[i] = ","
BodyPairs(b) == [j \in 1..((Len(b) + 1) \div 4) |-> <<b[4 * j - 3], b[4 * j - 1]>>]
JSONparse(s) ==
  IF s = <<"null">> THEN [ok |-> TRUE, val |-> NullV]
  ELSE IF Len(s) >= 2 /\ s[1] = "{" /\ s[Len(s)] = "}"
          /\ WellFormedBody(SubSeq(s, 2, Len(s) - 1))
       THEN [ok |-> TRUE, val |-> Obj(BodyPairs(SubSeq(s, 2, Len(s) - 1)))]
       ELSE [ok |-> FALSE, val |-> NullV]

----------------------------------------------------------------------------
(* The tab's state as one record, so that operations compose                *)

Cur == [token |-> token, user |-> user, lastActivity |-> lastActivity,
        isAuthenticated |-> isAuthenticated,
        isTokenExpiredCache |-> isTokenExpiredCache,
        shouldRefreshTokenCache |-> shouldRefreshTokenCache,
        localStorage |-> localStorage, cache |-> cache, cookies |-> cookies,
        isAvailable |-> isAvailable, mode |-> mode]

Becomes(w) ==
  /\ token' = w.token
  /\ user' = w.user
  /\ lastActivity' = w.lastActivity
  /\ isAuthenticated' = w.isAuthenticated
  /\ isTokenExpiredCache' = w.isTokenExpiredCache
  /\ shouldRefreshTokenCache' = w.shouldRefreshTokenCache
  /\ localStorage' = w.localStorage
  /\ cache' = w.cache
  /\ cookies' = w.cookies
  /\ isAvailable' = w.isAvailable

----------------------------------------------------------------------------
(* stores/storage.ts                                                        *)

\* window.localStorage: "ok" works; "quota" raises QuotaExceededError on
\* setItem; "denied" raises SecurityError whenever window.localStorage is
\* read; "absent" has window.localStorage null
Modes == {"ok", "quota", "denied", "absent"}

\* Results are [w, ret, threw]: the state after the call, the value returned,
\* and whether the call raised instead of returning.
Returns(w, ret) == [w |-> w, ret |-> ret, threw |-> FALSE]
Raises(w) == [w |-> w, ret |-> Null, threw |-> TRUE]
True == <<"true">>
False == <<"false">>

\* checkAvailability: the reads of window.localStorage are outside any try
checkAvailability(w) ==
  CASE w.mode = "denied" -> Raises(w)
    [] w.mode = "absent" -> Returns([w EXCEPT !.isAvailable = FALSE], False)
    [] OTHER -> Returns([w EXCEPT !.isAvailable = TRUE], True)

\* getItem: reads the durable store and mirrors a present value into cache
getItem(w, key) ==
  LET c == checkAvailability(w) IN
  IF c.threw THEN Raises(c.w)
  ELSE IF c.ret = False THEN Returns(c.w, Null)
  ELSE Returns(IF c.w.localStorage[key] # Null
               THEN [c.w EXCEPT !.cache[key] = c.w.localStorage[key]]
               ELSE c.w,
               c.w.localStorage[key])

setItem(w, key, value) ==
  LET c == checkAvailability(w) IN
  IF c.threw THEN Raises(c.w)
  ELSE IF c.ret = False THEN Returns(c.w, False)
  ELSE IF c.w.mode = "quota" THEN Returns(c.w, False)
  ELSE Returns([c.w EXCEPT !.localStorage[key] = value, !.cache[key] = value], True)

removeItem(w, key) ==
  LET c == checkAvailability(w) IN
  IF c.threw THEN Raises(c.w)
  ELSE IF c.ret = False THEN Returns(c.w, False)
  ELSE Returns([c.w EXCEPT !.localStorage[key] = Null, !.cache[key] = Null], True)

clear(w) ==
  LET c == checkAvailability(w) IN
  IF c.threw THEN Raises(c.w)
  ELSE IF c.ret = False THEN Returns(c.w, False)
  ELSE Returns([c.w EXCEPT !.localStorage = [k \in KEYS |-> Null],
                           !.cache = [k \in KEYS |-> Null]], True)

\* getJSON: null for an absent or empty item and for a text that does not parse
getJSON(w, key) ==
  LET g == getItem(w, key) IN
  [w |-> g.w,
   ret |-> IF ~TruthyStr(g.ret) THEN NullV
           ELSE IF JSONparse(g.ret).ok THEN JSONparse(g.ret).val ELSE NullV,
   threw |-> g.threw]

setJSON(w, key, value) == setItem(w, key, JSONstringify(value))

----------------------------------------------------------------------------
(* stores/auth.ts                                                           *)

\* Assigning a ref notifies the computeds that read it only when the value
\* changes (Object.is); a notified computed recomputes on its next read.
setLastActivityRef(w, v) ==
  IF v = w.lastActivity THEN w
  ELSE [w EXCEPT !.lastActivity = v,
                 !.isTokenExpiredCache = "dirty",
                 !.shouldRefreshTokenCache = "dirty"]

\* the getter given to computed() for isTokenExpired
isTokenExpiredGetter(la, t) ==
  IF ~TruthyNum(la) THEN TRUE ELSE t - la > TIMEOUT

\* the getter given to computed() for shouldRefreshToken
shouldRefreshTokenGetter(la, t) ==
  IF ~TruthyNum(la) THEN FALSE ELSE TIMEOUT - (t - la) <= REFRESH_THRESHOLD

\* Reading a computed: Vue runs the getter only when a ref the getter read
\* has been assigned a new value since the last run, and otherwise serves
\* the value it holds; Date.now() is not a ref.
computed(held, getterValue) ==
  IF held = "dirty" THEN getterValue ELSE held = "true"

Held(b) == IF b THEN "true" ELSE "false"

isTokenExpired(w, t) ==
  LET val == computed(w.isTokenExpiredCache, isTokenExpiredGetter(w.lastActivity, t)) IN
  [w |-> [w EXCEPT !.isTokenExpiredCache = Held(val)], ret |-> val]

shouldRefreshToken(w, t) ==
  LET val == computed(w.shouldRefreshTokenCache,
                      shouldRefreshTokenGetter(w.lastActivity, t)) IN
  [w |-> [w EXCEPT !.shouldRefreshTokenCache = Held(val)], ret |-> val]

\* clearAuthState that forgets the last-activity key
clearAuthState_keepsActivityKey(w) ==
  LET m == [setLastActivityRef(w, NullNum) EXCEPT
              !.token = Null, !.user = NullV, !.isAuthenticated = FALSE] IN
  removeItem(removeItem(m, TOKEN).w, USER).w

clearAuthState(w) ==
  LET m == [setLastActivityRef(w, NullNum) EXCEPT
              !.token = Null, !.user = NullV, !.isAuthenticated = FALSE] IN
  removeItem(removeItem(removeItem(m, TOKEN).w, USER).w, LAST_ACTIVITY).w

\* loadAuthState that leaves a stale or unreadable session where it is
loadAuthState_keepsStale(w, t) ==
  LET g1 == getItem(w, TOKEN)
      g2 == getJSON(g1.w, USER)
      g3 == getItem(g2.w, LAST_ACTIVITY)
      activityTime == parseInt(g3.ret)
  IN IF TruthyStr(g1.ret) /\ TruthyObj(g2.ret) /\ TruthyStr(g3.ret)
        /\ activityTime # NaN /\ t - activityTime <= TIMEOUT
     THEN [setLastActivityRef(g3.w, activityTime) EXCEPT
             !.token = g1.ret, !.user = g2.ret, !.isAuthenticated = TRUE]
     ELSE g3.w

\* loadAuthState that treats a session exactly TIMEOUT old as expired
loadAuthState_strict(w, t) ==
  LET g1 == getItem(w, TOKEN)
      g2 == getJSON(g1.w, USER)
      g3 == getItem(g2.w, LAST_ACTIVITY)
      activityTime == parseInt(g3.ret)
  IN IF TruthyStr(g1.ret) /\ TruthyObj(g2.ret) /\ TruthyStr(g3.ret)
     THEN IF activityTime # NaN /\ t - activityTime < TIMEOUT
          THEN [setLastActivityRef(g3.w, activityTime) EXCEPT
                  !.token = g1.ret, !.user = g2.ret, !.isAuthenticated = TRUE]
          ELSE clearAuthState(g3.w)
     ELSE g3.w

loadAuthState(w, t) ==
  LET g1 == getItem(w, TOKEN)
      g2 == getJSON(g1.w, USER)
      g3 == getItem(g2.w, LAST_ACTIVITY)
      activityTime == parseInt(g3.ret)
  IN IF TruthyStr(g1.ret) /\ TruthyObj(g2.ret) /\ TruthyStr(g3.ret)
     THEN IF activityTime # NaN /\ t - activityTime <= TIMEOUT
          THEN [setLastActivityRef(g3.w, activityTime) EXCEPT
                  !.token = g1.ret, !.user = g2.ret, !.isAuthenticated = TRUE]
          ELSE clearAuthState(g3.w)
     ELSE g3.w

setAuthData(w, authToken, userData, t) ==
  LET m == [setLastActivityRef(w, t) EXCEPT
              !.token = authToken, !.user = userData, !.isAuthenticated = TRUE] IN
  setItem(setJSON(setItem(m, TOKEN, authToken).w, USER, userData).w,
          LAST_ACTIVITY, toString(t)).w

\* { ...a, ...b }: a's keys in a's order with b's values where b has the key,
\* then b's other keys in b's order
Spread(a, b) ==
  LET kept == [i \in 1..Len(a) |->
                 IF HasKey(b, a[i][1]) THEN <<a[i][1], Get(b, a[i][1])>> ELSE a[i]]
  IN kept \o SelectSeq(b, LAMBDA p : ~HasKey(a, p[1]))

updateUser(w, userData) ==
  IF TruthyObj(w.user)
  THEN LET merged == Obj(Spread(w.user.v, userData)) IN
       setJSON([w EXCEPT !.user = merged], USER, merged).w
  ELSE w

updateLastActivity(w, t) ==
  setItem(setLastActivityRef(w, t), LAST_ACTIVITY, toString(t)).w

getValidToken(w, t) ==
  IF ~TruthyStr(w.token) THEN [w |-> clearAuthState(w), ret |-> Null]
  ELSE LET e == isTokenExpired(w, t) IN
       IF e.ret THEN [w |-> clearAuthState(e.w), ret |-> Null]
       ELSE [w |-> e.w, ret |-> w.token]

isSessionValid(w, t) ==
  IF ~w.isAuthenticated THEN [w |-> w, ret |-> FALSE]
  ELSE LET e == isTokenExpired(w, t) IN
       [w |-> e.w, ret |-> ~e.ret /\ TruthyStr(w.token)]

\* the setter of the writable computed tokenReactive
tokenReactive(w, value) ==
  IF TruthyStr(value)
  THEN [setItem(w, TOKEN, value).w EXCEPT !.token = value]
  ELSE [removeItem(w, TOKEN).w EXCEPT !.token = Null]

\* the setter of the writable computed userReactive
userReactive(w, value) ==
  IF TruthyObj(value)
  THEN [setJSON(w, USER, value).w EXCEPT !.user = value]
  ELSE [removeItem(w, USER).w EXCEPT !.user = NullV]

\* the callback without the assignment of a new non-empty token
watchAuthChanges_keepsToken(w, key, newValue, t) ==
  LET afterKey ==
        CASE key = TOKEN ->
               IF newValue # w.token /\ ~TruthyStr(newValue)
               THEN clearAuthState([w EXCEPT !.token = newValue])
               ELSE w
          [] key = USER ->
               IF TruthyStr(newValue)
               THEN IF JSONparse(newValue).ok
                       /\ JSONstringify(JSONparse(newValue).val) # JSONstringify(w.user)
                    THEN [w EXCEPT !.user = JSONparse(newValue).val]
                    ELSE w
               ELSE [w EXCEPT !.user = NullV]
          [] key = LAST_ACTIVITY ->
               IF TruthyStr(newValue)
               THEN setLastActivityRef(w, parseInt(newValue))
               ELSE setLastActivityRef(w, NullNum)
          [] OTHER -> w
  IN IF TruthyStr(afterKey.token) /\ TruthyObj(afterKey.user)
        /\ TruthyNum(afterKey.lastActivity)
     THEN LET e == isTokenExpired(afterKey, t) IN
          [e.w EXCEPT !.isAuthenticated = ~e.ret]
     ELSE [afterKey EXCEPT !.isAuthenticated = FALSE]

\* the callback watchAuthChanges hands to watchStorage
watchAuthChanges(w, key, newValue, t) ==
  LET afterKey ==
        CASE key = TOKEN ->
               IF newValue # w.token
               THEN IF ~TruthyStr(newValue)
                    THEN clearAuthState([w EXCEPT !.token = newValue])
                    ELSE [w EXCEPT !.token = newValue]
               ELSE w
          [] key = USER ->
               IF TruthyStr(newValue)
               THEN IF JSONparse(newValue).ok
                    THEN IF JSONstringify(JSONparse(newValue).val) # JSONstringify(w.user)
                         THEN [w EXCEPT !.user = JSONparse(newValue).val]
                         ELSE w
                    ELSE w
               ELSE [w EXCEPT !.user = NullV]
          [] key = LAST_ACTIVITY ->
               IF TruthyStr(newValue)
               THEN setLastActivityRef(w, parseInt(newValue))
               ELSE setLastActivityRef(w, NullNum)
          [] OTHER -> w
  IN IF TruthyStr(afterKey.token) /\ TruthyObj(afterKey.user)
        /\ TruthyNum(afterKey.lastActivity)
     THEN LET e == isTokenExpired(afterKey, t) IN
          [e.w EXCEPT !.isAuthenticated = ~e.ret]
     ELSE [afterKey EXCEPT !.isAuthenticated = FALSE]

\* storage.ts handleStorageChange: mirror the changed key, then the callback
handleStorageChange(w, ev, t) ==
  watchAuthChanges([w EXCEPT !.cache[ev.key] = ev.new], ev.key, ev.new, t)

----------------------------------------------------------------------------
(* useAuth composable: the session mirrored into cookies                    *)

useAuth_setAuthData(w, tok, usr, t) ==
  setAuthData([w EXCEPT !.cookies[TOKEN] = tok,
                        !.cookies[USER] = JSONstringify(usr)], tok, usr, t)

clearAuthData(w) ==
  clearAuthState([w EXCEPT !.cookies[TOKEN] = Null, !.cookies[USER] = Null])

----------------------------------------------------------------------------
(* services/auth.ts                                                         *)

getStoredToken(w, t) ==
  LET g == getValidToken(w, t) IN
  [w |-> g.w,
   ret |-> IF TruthyStr(g.ret) THEN g.ret
           ELSE IF TruthyStr(g.w.cookies[TOKEN]) THEN g.w.cookies[TOKEN] ELSE Null]

getStoredUser(w) ==
  IF TruthyObj(w.user) THEN w.user
  ELSE IF TruthyStr(w.cookies[USER]) /\ JSONparse(w.cookies[USER]).ok
       THEN JSONparse(w.cookies[USER]).val
       ELSE NullV

Count(s, c) == Cardinality({i \in 1..Len(s) : s[i] = c})

\* token.split('.') must have three parts, then length > 10 and a '|'
isTokenValid(tok) ==
  IF ~TruthyStr(tok) THEN FALSE
  ELSE IF Count(tok, ".") + 1 # 3 THEN FALSE
  ELSE Len(tok) > 10 /\ Count(tok, "|") > 0

AuthService_isAuthenticated(w, t) ==
  LET g == getStoredToken(w, t)
      u == getStoredUser(g.w)
  IN [w |-> g.w, ret |-> TruthyStr(g.ret) /\ TruthyObj(u) /\ isTokenValid(g.ret)]

----------------------------------------------------------------------------
(* utils/migration.ts                                                       *)

\* needsMigration that looks at the durable store only
needsMigration_legacyOnly(w) == TruthyStr(w.localStorage[TOKEN])

needsMigration(w) ==
  LET hasOldToken == TruthyStr(w.localStorage[TOKEN])
      hasStoreToken == TruthyStr(w.token)
  IN hasOldToken /\ ~hasStoreToken

\* migrateStorageData that accepts any legacy user that parses
migrateStorageData_anyUser(w, t) ==
  LET existingToken == w.localStorage[TOKEN]
      existingUserStr == w.localStorage[USER]
      existingActivity == w.localStorage[LAST_ACTIVITY]
      existingUser == JSONparse(existingUserStr)
  IN IF w.mode \in {"denied", "absent"} THEN w
     ELSE IF TruthyStr(existingToken) /\ TruthyStr(existingUserStr)
     THEN IF existingUser.ok /\ TruthyObj(existingUser.val)
          THEN LET m == setAuthData(w, existingToken, existingUser.val, t) IN
               IF TruthyStr(existingActivity) /\ parseInt(existingActivity) # NaN
               THEN setItem(m, LAST_ACTIVITY, existingActivity).w
               ELSE m
          ELSE w
     ELSE w

\* migrateStorageData: reads window.localStorage directly, then writes
\* through the stores; when window.localStorage cannot be read the error is
\* caught by the function's try and nothing is changed
migrateStorageData(w, t) ==
  LET existingToken == w.localStorage[TOKEN]
      existingUserStr == w.localStorage[USER]
      existingActivity == w.localStorage[LAST_ACTIVITY]
      existingUser == JSONparse(existingUserStr)
  IN IF w.mode \in {"denied", "absent"} THEN w
     ELSE IF TruthyStr(existingToken) /\ TruthyStr(existingUserStr)
     THEN IF existingUser.ok /\ TruthyProp(existingUser.val, "id")
          THEN LET m == setAuthData(w, existingToken, existingUser.val, t) IN
               IF TruthyStr(existingActivity) /\ parseInt(existingActivity) # NaN
               THEN setItem(m, LAST_ACTIVITY, existingActivity).w
               ELSE m
          ELSE w
     ELSE w

cleanupOldStorage(w) ==
  [w EXCEPT !.localStorage =
     [k \in KEYS |-> IF k \in DEPRECATED_KEYS /\ TruthyStr(w.localStorage[k])
                     THEN Null ELSE w.localStorage[k]]]

verifyMigration(w) ==
  LET hasValidAuthState ==
        IF w.isAuthenticated
        THEN TruthyStr(w.token) /\ TruthyObj(w.user) /\ TruthyProp(w.user, "id")
        ELSE TRUE
      isStorageReady == w.isAvailable
  IN hasValidAuthState /\ isStorageReady

\* runCompleteMigration up to its timer (steps 1 to 3); awaits: it goes on
\* after the timer
runCompleteMigration(w, t) ==
  IF ~needsMigration(w) THEN [w |-> w, awaits |-> FALSE]
  ELSE [w |-> migrateStorageData(w, t), awaits |-> TRUE]

\* the rest of the run with the clean-up done whatever the verification says
runCompleteMigration_alwaysCleans(w) ==
  [w |-> cleanupOldStorage(w), verified |-> verifyMigration(w), cleaned |-> TRUE]

\* runCompleteMigration after its timer (steps 4 and 5)
runCompleteMigration_resumed(w) ==
  IF verifyMigration(w)
  THEN [w |-> cleanupOldStorage(w), verified |-> TRUE, cleaned |-> TRUE]
  ELSE [w |-> w, verified |-> FALSE, cleaned |-> FALSE]

----------------------------------------------------------------------------
(* plugins/auth.client.ts and the storage plugin                            *)

\* the authentication plugin's start-up block: it reads and writes
\* window.localStorage directly
authPlugin(w, t) ==
  LET tok == w.localStorage[TOKEN]
      userStr == w.localStorage[USER]
      parsed == JSONparse(userStr)
  IN IF TruthyStr(tok) /\ TruthyStr(userStr)
     THEN IF parsed.ok /\ parsed.val.t = "obj"
          THEN [w EXCEPT !.localStorage[LAST_ACTIVITY] = toString(t)]
          ELSE [w EXCEPT !.localStorage =
                  [k \in KEYS |-> IF k \in STORAGE_KEYS THEN Null ELSE w.localStorage[k]]]
     ELSE w

\* the storage plugin up to runCompleteMigration's timer: init(),
\* initAuthState() and the first steps of the migration
storagePlugin(w, t) ==
  LET inited == checkAvailability(w).w
      loaded == loadAuthState(checkAvailability(inited).w, t)
  IN runCompleteMigration(loaded, t)

\* the authentication plugin's listener for mousedown, mousemove, keypress,
\* scroll, touchstart and click: it writes window.localStorage directly
\* (and then sets its activityTimer again)
authPlugin_updateActivity(w, t) ==
  IF TruthyStr(w.localStorage[TOKEN])
  THEN [w EXCEPT !.localStorage[LAST_ACTIVITY] = toString(t)]
  ELSE w

\* the authentication plugin's periodic session check: it reads and removes
\* window.localStorage keys directly and assigns window.location.href
sessionCheck(w, t) ==
  LET tok == w.localStorage[TOKEN]
      la == w.localStorage[LAST_ACTIVITY]
  IN IF TruthyStr(tok) /\ TruthyStr(la)
        /\ parseInt(la) # NaN /\ t - parseInt(la) > TIMEOUT
     THEN [w |-> [w EXCEPT !.localStorage =
                    [k \in KEYS |-> IF k \in STORAGE_KEYS THEN Null
                                                          ELSE w.localStorage[k]]],
           ret |-> LOGIN]
     ELSE [w |-> w, ret |-> Null]

----------------------------------------------------------------------------
(* useAuth composable: session management                                   *)

\* checkSession: performLogout() when the store is authenticated and its
\* isTokenExpired computed reads true
checkSession(w, t) ==
  IF ~w.isAuthenticated THEN [w |-> w, ret |-> Null]
  ELSE LET e == isTokenExpired(w, t) IN
       IF e.ret THEN [w |-> clearAuthData(e.w), ret |-> LOGIN]
       ELSE [w |-> e.w, ret |-> Null]

\* the click, keypress and scroll listener
updateActivity(w, t) ==
  IF w.isAuthenticated THEN updateLastActivity(w, t) ELSE w

----------------------------------------------------------------------------
(* middleware/auth.ts and the guest middleware                              *)

\* the user cookie parses to a record with a truthy id and email
ValidUserCookie(c) ==
  JSONparse(c).ok /\ TruthyProp(JSONparse(c).val, "id")
                  /\ TruthyProp(JSONparse(c).val, "email")

NoCookies(w) == [w EXCEPT !.cookies[TOKEN] = Null, !.cookies[USER] = Null]

NoSessionKeys(w) ==
  [w EXCEPT !.localStorage[TOKEN] = Null, !.localStorage[USER] = Null,
            !.localStorage[LAST_ACTIVITY] = Null]

\* ret is the route of navigateTo, or Null when the navigation goes through
authMiddleware(w, t) ==
  LET la == w.localStorage[LAST_ACTIVITY] IN
  IF ~TruthyStr(w.cookies[TOKEN]) \/ ~TruthyStr(w.cookies[USER])
  THEN [w |-> w, ret |-> LOGIN]
  ELSE IF ~ValidUserCookie(w.cookies[USER])
  THEN [w |-> NoCookies(w), ret |-> LOGIN]
  ELSE IF ~TruthyStr(la) THEN [w |-> w, ret |-> Null]
  ELSE IF parseInt(la) # NaN /\ t - parseInt(la) > TIMEOUT
  THEN [w |-> NoSessionKeys(NoCookies(w)), ret |-> LOGIN]
  ELSE [w |-> [w EXCEPT !.localStorage[LAST_ACTIVITY] = toString(t)], ret |-> Null]

guestMiddleware(w) ==
  IF TruthyStr(w.cookies[TOKEN]) /\ TruthyStr(w.cookies[USER])
  THEN IF ~JSONparse(w.cookies[USER]).ok
       THEN [w |-> NoSessionKeys(NoCookies(w)), ret |-> Null]
       ELSE IF ValidUserCookie(w.cookies[USER])
       THEN [w |-> w, ret |-> DASHBOARD]
       ELSE [w |-> w, ret |-> Null]
  ELSE [w |-> w, ret |-> Null]

----------------------------------------------------------------------------
(* lib/api.ts: request()                                                    *)

ENDPOINTS == {"/auth/signup", "/auth/login", "/auth/logout", "/auth/user",
              "/auth/refresh", "/auth/forgot-password", "/auth/reset-password",
              "/auth/change-password", "/auth/profile"}
ProtectedEndpoints == {"/auth/user", "/auth/logout", "/auth/profile",
                       "/auth/change-password"}
NETWORK_ERROR == "\"Network error. Please check your connection.\""

getAuthToken(w, t) ==
  LET g == getValidToken(w, t) IN
  [w |-> g.w,
   ret |-> IF TruthyStr(g.ret) THEN g.ret
           ELSE IF TruthyStr(g.w.cookies[TOKEN]) THEN g.w.cookies[TOKEN] ELSE Null]

\* error.message.includes('fetch'), on a message given as its words
includes(message, word) == \E i \in 1..Len(message) : message[i] = word

\* property of a parsed body, undefined when the body has no such property
Prop(o, k) == IF HasKey(o.v, k) THEN Get(o.v, k) ELSE "undefined"

\* The message of the error request() raises for the outcome of fetch, Null
\* when it returns normally.  out.kind is "ok" (2xx), "http" (a response
\* with out.status and the text out.body) or "reject" (fetch rejected with
\* an error of class out.name and message out.message).
raised(out) ==
  CASE out.kind = "ok" -> Null
    [] out.kind = "http" ->
         LET p == JSONparse(out.body)
             errorData == IF p.ok THEN p.val
                          ELSE Obj(<< <<"success", "false">>,
                                      <<"message", "\"HTTP " \o NumLexeme(out.status)
                                                   \o ": " \o out.statusText \o "\"">>,
                                      <<"status", NumLexeme(out.status)>> >>)
         IN IF errorData.t = "null"
            \* reading .message of null throws a TypeError inside the try
            \* block; its message does not mention fetch, so it is rethrown
            THEN <<"Cannot", "read", "properties", "of", "null">>
            ELSE JSONstringify(Obj(<<
                   <<"success", "false">>,
                   <<"message", IF Prop(errorData, "message") \in FalsyLexemes
                                THEN "\"Request failed\""
                                ELSE Prop(errorData, "message")>>,
                   <<"errors", Prop(errorData, "errors")>>,
                   <<"code", Prop(errorData, "code")>>,
                   <<"status", NumLexeme(out.status)>> >>))
    [] OTHER ->
         IF out.name = "TypeError" /\ includes(out.message, "fetch")
         THEN JSONstringify(Obj(<< <<"success", "false">>,
                                   <<"message", NETWORK_ERROR>>,
                                   <<"status", "0">> >>))
         ELSE out.message

\* request() that sends the token to every endpoint
request_authorizesAll(w, endpoint, out, t) ==
  LET a == getAuthToken(w, t) IN
  [w |-> a.w,
   hdr |-> IF TruthyStr(a.ret) THEN a.ret ELSE Null,
   ret |-> raised(out)]

\* request(): the token is fetched for every endpoint, the header is added
\* for a protected endpoint when a token was found (no endpoint of
\* ENDPOINTS contains another, so includes() is membership)
request(w, endpoint, out, t) ==
  LET a == getAuthToken(w, t) IN
  [w |-> a.w,
   hdr |-> IF TruthyStr(a.ret) /\ endpoint \in ProtectedEndpoints THEN a.ret ELSE Null,
   ret |-> raised(out)]

----------------------------------------------------------------------------
(* Inputs                                                                   *)

TokSanctum == <<"a", "b", "c", "|", "1", "2", "3">>
TokDotted == <<"9", "|", "a", "a", ".", "b", "b", ".", "c", "c", "c">>
Tokens == {TokSanctum, TokDotted}

Jane == Obj(<< <<"id", "7">>, <<"name", "\"Jane Doe\"">>,
               <<"username", "\"jdoe\"">>, <<"email", "\"jdoe@example.com\"">> >>)
Users == {Jane}
Partials == { << <<"name", "\"J. Doe\"">>, <<"emailVerifiedAt", "\"2024-01-01\"">> >> }

HttpBodies == { <<"{", "message", ":", "\"Unauthenticated.\"", "}">>,
                <<"{", "}">>,
                <<"null">>,
                <<"<html>Bad Gateway</html>">> }
HttpStatuses == {401, 500}
Rejections == { [name |-> "TypeError", message |-> <<"Failed", "to", "fetch">>],
                [name |-> "TypeError", message |-> <<"Load", "failed">>],
                [name |-> "TypeError",
                 message |-> <<"NetworkError", "when", "attempting", "to", "fetch", "resource.">>] }
NoOutcome == [kind |-> "ok", status |-> 200, statusText |-> "", body |-> <<>>,
              name |-> "", message |-> <<>>]
Outcomes ==
  {NoOutcome}
  \cup {[NoOutcome EXCEPT !.kind = "http", !.status = s, !.body = b] :
          s \in HttpStatuses, b \in HttpBodies}
  \cup {[NoOutcome EXCEPT !.kind = "reject", !.status = 0, !.name = r.name,
                          !.message = r.message] : r \in Rejections}

----------------------------------------------------------------------------
(* History of the most recent operation                                     *)

\* op: the operation, "tick" once time has passed since; seq: the run of
\* operations it completes, when that run is one a property speaks of;
\* t, u, since: the token, user and time of the setAuthData that run began
\* with; ret: what the operation returned or raised; pre, held: whether the
\* in-memory session was expired, and what the isTokenExpired computed
\* held, when the operation began; chg: the operation changed token or
\* user; key, diff: the key of the storage event, and whether its new value
\* differed from the in-memory token; out, hdr: the outcome of fetch and
\* the Authorization header of a request.
NoLast == [op |-> "init", seq |-> "", key |-> "", t |-> Null, u |-> NullV, since |-> 0,
           ret |-> Null, pre |-> FALSE, held |-> "dirty", chg |-> FALSE,
           diff |-> FALSE, out |-> NoOutcome, hdr |-> Null,
           threw |-> FALSE, kept |-> TRUE, failed |-> FALSE,
           verified |-> FALSE, cleaned |-> FALSE,
           had |-> FALSE, fresh |-> FALSE, authed |-> FALSE, late |-> FALSE,
           durable |-> TRUE, still |-> TRUE, burst |-> 0, writes |-> 0]

\* burst, writes: how many interaction events in a row the listener op has
\* handled with no other step in between, and how many of them wrote the
\* last-activity key
Burst(op) == IF last.op = op THEN last.burst ELSE 0
Writes(op) == IF last.op = op THEN last.writes ELSE 0

\* the in-memory session is expired at time t
Expired(la, t) == TruthyNum(la) /\ t - la > TIMEOUT

Bool(b) == IF b THEN <<"true">> ELSE <<"false">>

\* the durable store holds a token, a user record and an activity value
Complete(ls) ==
  /\ TruthyStr(ls[TOKEN])
  /\ TruthyStr(ls[USER]) /\ JSONparse(ls[USER]).ok /\ JSONparse(ls[USER]).val.t = "obj"
  /\ TruthyStr(ls[LAST_ACTIVITY])

\* its activity value reads as a time no more than TIMEOUT before t
Fresh(ls, t) ==
  /\ parseInt(ls[LAST_ACTIVITY]) # NaN
  /\ t - parseInt(ls[LAST_ACTIVITY]) <= TIMEOUT

\* the operation op took the tab to w
Did(op, w) ==
  [NoLast EXCEPT !.op = op,
                 !.kept = (w.localStorage = localStorage /\ w.cache = cache),
                 !.durable = (w.localStorage = localStorage),
                 !.still = (w.token = token /\ w.user = user
                              /\ w.lastActivity = lastActivity
                              /\ w.isAuthenticated = isAuthenticated),
                 !.pre = Expired(lastActivity, now),
                 !.held = isTokenExpiredCache,
                 !.chg = (w.token # token \/ w.user # user)]

\* op continues the run before, keeping the login the run began with
Continues(op, w, before) ==
  IF last.seq = before
  THEN [Did(op, w) EXCEPT !.seq = before \o ";" \o op,
                          !.t = last.t, !.u = last.u, !.since = last.since]
  ELSE Did(op, w)

----------------------------------------------------------------------------
(* Initial state and actions                                                *)

Absent(keys) == [k \in keys |-> Null]

\* plugins: the client plugins that have finished; pc: "awaiting" while
\* runCompleteMigration waits on its timer; before: the durable keys present
\* when that run began; stale: the page load began with a persisted session
\* older than TIMEOUT
\* interval: the authentication plugin's sessionCheckInterval is running
\* valid: the durable store held a complete, unexpired session when the
\* first plugin began
\* timer: the authentication plugin's activityTimer is set
NoBoot == [plugins |-> {}, pc |-> "idle", before |-> {}, stale |-> FALSE,
           interval |-> FALSE, valid |-> FALSE, timer |-> FALSE]

\* dead: the token of the session an expiry path ended, until the next
\* setAuthData
NoHist == [dead |-> Null]

Init ==
  /\ token = Null
  /\ user = NullV
  /\ lastActivity = NullNum
  /\ isAuthenticated = FALSE
  /\ isTokenExpiredCache = "dirty"
  /\ shouldRefreshTokenCache = "dirty"
  /\ localStorage = Absent(KEYS)
  /\ cache = Absent(KEYS)
  /\ cookies = Absent(COOKIE_KEYS)
  /\ isAvailable = FALSE
  /\ mode = "ok"
  /\ watching = FALSE
  /\ events = <<>>
  /\ now = StartTime
  /\ boot = NoBoot
  /\ hist = NoHist
  /\ last = NoLast

Store == <<token, user, lastActivity, isAuthenticated, isTokenExpiredCache,
           shouldRefreshTokenCache, localStorage, cache, cookies, isAvailable>>
Env == <<mode, watching, events, now, boot, hist>>
Aux == <<mode, boot, hist>>
World == <<mode, watching, events, now, boot>>

\* an expiry path ended the session whose token was tok
Ended(tok) == [hist EXCEPT !.dead = tok]

\* time passes
Tick ==
  /\ now < EndTime
  /\ now' = now + Step
  /\ last' = [last EXCEPT !.op = "tick"]
  /\ UNCHANGED <<Store, Aux, watching, events>>

SetAuthData ==
  \E t \in Tokens, u \in Users :
    LET w == setAuthData(Cur, t, u, now) IN
    /\ Becomes(w)
    /\ last' = [Did("setAuthData", w) EXCEPT
                  !.seq = "setAuthData", !.t = t, !.u = u, !.since = now]
    /\ hist' = NoHist
    /\ UNCHANGED World

\* loginMutation.onSuccess: useAuth's setAuthData with the response's data
Login ==
  \E t \in Tokens, u \in Users :
    LET w == useAuth_setAuthData(Cur, t, u, now) IN
    /\ Becomes(w)
    /\ last' = [Did("login", w) EXCEPT
                  !.seq = "login", !.t = t, !.u = u, !.since = now]
    /\ hist' = NoHist
    /\ UNCHANGED World

\* performLogout
Logout ==
  LET w == clearAuthData(Cur) IN
  /\ Becomes(w)
  /\ last' = Did("logout", w)
  /\ UNCHANGED Env

UpdateUser ==
  \E p \in Partials :
    LET w == updateUser(Cur, p) IN
    /\ Becomes(w)
    /\ last' = Did("updateUser", w)
    /\ UNCHANGED Env

UpdateLastActivity ==
  LET w == updateLastActivity(Cur, now) IN
  /\ Becomes(w)
  /\ last' = Did("updateLastActivity", w)
  /\ UNCHANGED Env

ClearAuthState ==
  LET w == clearAuthState(Cur) IN
  /\ Becomes(w)
  /\ last' = [Did("clearAuthState", w) EXCEPT
                !.seq = IF last.seq \in {"clearAuthState", "clearAuthState;clearAuthState"}
                        THEN "clearAuthState;clearAuthState" ELSE "clearAuthState"]
  /\ UNCHANGED Env

LoadAuthState ==
  LET w == loadAuthState(Cur, now) IN
  /\ Becomes(w)
  /\ last' = [Continues("loadAuthState", w, "setAuthData;reload") EXCEPT
                !.had = Complete(localStorage),
                !.fresh = Complete(localStorage) /\ Fresh(localStorage, now),
                !.authed = isAuthenticated]
  /\ hist' = IF Complete(localStorage) /\ ~Fresh(localStorage, now)
             THEN Ended(localStorage[TOKEN]) ELSE hist
  /\ UNCHANGED World

GetValidToken ==
  LET r == getValidToken(Cur, now) IN
  /\ Becomes(r.w)
  /\ last' = [Continues("getValidToken", r.w, "login") EXCEPT !.ret = r.ret]
  /\ hist' = IF token # Null /\ r.w.token = Null THEN Ended(token) ELSE hist
  /\ UNCHANGED World

IsSessionValid ==
  LET r == isSessionValid(Cur, now) IN
  /\ Becomes(r.w)
  /\ last' = [Did("isSessionValid", r.w) EXCEPT !.ret = Bool(r.ret)]
  /\ UNCHANGED Env

ReadIsTokenExpired ==
  LET r == isTokenExpired(Cur, now) IN
  /\ Becomes(r.w)
  /\ last' = [Did("isTokenExpired", r.w) EXCEPT !.ret = Bool(r.ret)]
  /\ UNCHANGED Env

ReadShouldRefreshToken ==
  LET r == shouldRefreshToken(Cur, now) IN
  /\ Becomes(r.w)
  /\ last' = [Did("shouldRefreshToken", r.w) EXCEPT
                !.ret = Bool(r.ret), !.held = shouldRefreshTokenCache]
  /\ UNCHANGED Env

SetTokenReactive ==
  \E v \in Tokens \cup {Null} :
    LET w == tokenReactive(Cur, v) IN
    /\ Becomes(w)
    /\ last' = Did("tokenReactive", w)
    /\ UNCHANGED Env

SetUserReactive ==
  \E v \in Users \cup {NullV} :
    LET w == userReactive(Cur, v) IN
    /\ Becomes(w)
    /\ last' = Did("userReactive", w)
    /\ UNCHANGED Env

\* watchAuthChanges(): storage.ts watchStorage attaches the listener
WatchAuthChanges ==
  /\ ~watching
  /\ watching' = TRUE
  /\ last' = Did("watchAuthChanges", Cur)
  /\ UNCHANGED <<Store, Aux, events, now>>

\* the events another tab's writes dispatch to this tab: one per key whose
\* value changed, in the order of the writes (the callback ignores oldValue)
RECURSIVE Changes(_, _, _)
Changes(keys, old, new) ==
  IF keys = <<>> THEN <<>>
  ELSE (IF old[Head(keys)] # new[Head(keys)]
        THEN <<[key |-> Head(keys), new |-> new[Head(keys)]]>>
        ELSE <<>>)
       \o Changes(Tail(keys), old, new)
KeyOrder == <<TOKEN, USER, LAST_ACTIVITY>>

OtherTabWrites(ls, ck, op) ==
  /\ Len(events) + Len(Changes(KeyOrder, localStorage, ls)) <= MaxEvents
  /\ localStorage' = ls
  /\ cookies' = ck
  /\ events' = events \o Changes(KeyOrder, localStorage, ls)
  /\ last' = Did(op, Cur)
  /\ UNCHANGED <<token, user, lastActivity, isAuthenticated, isTokenExpiredCache,
                 shouldRefreshTokenCache, cache, isAvailable, Aux, watching, now>>

\* another tab logs in: its useAuth setAuthData writes the cookies and the keys
OtherTabLogin ==
  \E t \in Tokens, u \in Users :
    OtherTabWrites([localStorage EXCEPT ![TOKEN] = t, ![USER] = JSONstringify(u),
                                        ![LAST_ACTIVITY] = toString(now)],
                   [cookies EXCEPT ![TOKEN] = t, ![USER] = JSONstringify(u)],
                   "otherTabLogin")

\* another tab logs out: its clearAuthData clears the cookies and the keys
OtherTabLogout ==
  OtherTabWrites([k \in KEYS |-> IF k \in STORAGE_KEYS THEN Null ELSE localStorage[k]],
                 Absent(COOKIE_KEYS), "otherTabLogout")

\* another tab records activity: its updateLastActivity writes the key
OtherTabActivity ==
  /\ TruthyStr(localStorage[TOKEN])
  /\ OtherTabWrites([localStorage EXCEPT ![LAST_ACTIVITY] = toString(now)],
                    cookies, "otherTabActivity")

\* the browser dispatches the oldest pending StorageEvent
DeliverEvent ==
  /\ events # <<>>
  /\ LET ev == Head(events)
         w == IF watching THEN handleStorageChange(Cur, ev, now) ELSE Cur
     IN /\ Becomes(w)
        /\ last' = [Did("storageEvent", w) EXCEPT
                      !.key = IF watching THEN ev.key ELSE "",
                      !.t = IF watching THEN ev.new ELSE Null,
                      !.diff = (watching /\ ev.new # token)]
  /\ events' = Tail(events)
  /\ UNCHANGED <<Aux, watching, now>>

\* the page is loaded again: the stores are constructed anew, the durable
\* store and the cookies stay
Reload ==
  /\ token' = Null
  /\ user' = NullV
  /\ lastActivity' = NullNum
  /\ isAuthenticated' = FALSE
  /\ isTokenExpiredCache' = "dirty"
  /\ shouldRefreshTokenCache' = "dirty"
  /\ cache' = Absent(KEYS)
  /\ isAvailable' = FALSE
  /\ watching' = FALSE
  /\ events' = <<>>
  /\ last' = IF last.seq = "setAuthData"
             THEN [NoLast EXCEPT !.op = "reload", !.seq = "setAuthData;reload",
                                 !.t = last.t, !.u = last.u, !.since = last.since]
             ELSE [NoLast EXCEPT !.op = "reload"]
  /\ UNCHANGED <<localStorage, cookies, Aux, now>>

ServiceIsAuthenticated ==
  LET r == AuthService_isAuthenticated(Cur, now) IN
  /\ Becomes(r.w)
  /\ last' = [Continues("AuthService.isAuthenticated", r.w, "login") EXCEPT
                !.ret = Bool(r.ret)]
  /\ UNCHANGED Env

NeedsMigration ==
  /\ last' = [Did("needsMigration", Cur) EXCEPT !.ret = Bool(needsMigration(Cur))]
  /\ UNCHANGED <<Store, Aux, watching, events, now>>

Request ==
  \E e \in ENDPOINTS, o \in Outcomes :
    LET r == request(Cur, e, o, now) IN
    /\ Becomes(r.w)
    /\ last' = [Did("request", r.w) EXCEPT !.key = e, !.out = o, !.hdr = r.hdr,
                                           !.ret = r.ret,
                                           !.late = (hist.dead # Null)]
    /\ hist' = IF token # Null /\ r.w.token = Null THEN Ended(token) ELSE hist
    /\ UNCHANGED World

\* one tab, the operations the application and the store's callers perform
Next ==
  \/ Tick
  \/ SetAuthData
  \/ Login
  \/ Logout
  \/ UpdateUser
  \/ UpdateLastActivity
  \/ ClearAuthState
  \/ LoadAuthState
  \/ GetValidToken
  \/ IsSessionValid
  \/ ReadIsTokenExpired
  \/ ReadShouldRefreshToken
  \/ Reload
  \/ ServiceIsAuthenticated

Spec == Init /\ [][Next]_vars

\* the store's public operations, the writable computeds included
NextPublic ==
  \/ Tick
  \/ SetAuthData
  \/ UpdateUser
  \/ UpdateLastActivity
  \/ ClearAuthState
  \/ LoadAuthState
  \/ GetValidToken
  \/ SetTokenReactive
  \/ SetUserReactive

SpecPublic == Init /\ [][NextPublic]_vars

\* this tab beside other tabs that write the shared durable store
NextTabs ==
  \/ Tick
  \/ Login
  \/ WatchAuthChanges
  \/ OtherTabLogin
  \/ OtherTabLogout
  \/ OtherTabActivity
  \/ DeliverEvent
  \/ NeedsMigration

SpecTabs == Init /\ [][NextTabs]_vars

----------------------------------------------------------------------------
(* The storage store on its own, over every behaviour of window.localStorage *)

Malformed == <<"{", "id", ":">>
\* a user record without the id field
Anonymous == Obj(<< <<"name", "\"Jane Doe\"">>, <<"email", "\"jdoe@example.com\"">> >>)
StoredTexts == {Null, Malformed, JSONstringify(Jane), JSONstringify(Anonymous)}

InitStorage ==
  /\ token = Null
  /\ user = NullV
  /\ lastActivity = NullNum
  /\ isAuthenticated = FALSE
  /\ isTokenExpiredCache = "dirty"
  /\ shouldRefreshTokenCache = "dirty"
  /\ \E x \in StoredTexts : localStorage = [Absent(KEYS) EXCEPT ![USER] = x]
  /\ cache = Absent(KEYS)
  /\ cookies = Absent(COOKIE_KEYS)
  /\ isAvailable = FALSE
  /\ mode \in Modes
  /\ watching = FALSE
  /\ events = <<>>
  /\ now = StartTime
  /\ boot = NoBoot
  /\ hist = NoHist
  /\ last = NoLast

\* the call r of the storage operation op; failed: the underlying store
\* could not do what was asked
Called(op, r, failed) ==
  /\ Becomes(r.w)
  /\ last' = [Did(op, r.w) EXCEPT !.ret = r.ret, !.threw = r.threw, !.failed = failed]
  /\ UNCHANGED Env

Unusable == mode \in {"denied", "absent"}

CallCheckAvailability ==
  Called("checkAvailability", checkAvailability(Cur), Unusable)

CallGetItem ==
  \E k \in {TOKEN, USER} : Called("getItem", getItem(Cur, k), Unusable)

CallSetItem ==
  \E k \in {TOKEN, USER}, v \in {TokSanctum, Malformed} :
    Called("setItem", setItem(Cur, k, v), Unusable \/ mode = "quota")

CallRemoveItem ==
  \E k \in {TOKEN, USER} : Called("removeItem", removeItem(Cur, k), Unusable)

CallClear == Called("clear", clear(Cur), Unusable)

CallGetJSON ==
  \E k \in {TOKEN, USER} :
    LET r == getJSON(Cur, k) IN
    Called("getJSON",
           [r EXCEPT !.ret = IF r.ret = NullV THEN Null ELSE JSONstringify(r.ret)],
           Unusable \/ (TruthyStr(localStorage[k]) /\ ~JSONparse(localStorage[k]).ok))

CallSetJSON ==
  \E k \in {USER}, v \in Users :
    Called("setJSON", setJSON(Cur, k, v), Unusable \/ mode = "quota")

NextStorage ==
  \/ CallCheckAvailability
  \/ CallGetItem
  \/ CallSetItem
  \/ CallRemoveItem
  \/ CallClear
  \/ CallGetJSON
  \/ CallSetJSON

SpecStorage == InitStorage /\ [][NextStorage]_vars

----------------------------------------------------------------------------
(* A page load over what an earlier visit left in the browser               *)

BadId == << <<"id", "0">> >>
StoredActivities == {Null, toString(StartTime), <<"a", "b", "c">>}
Present(ls) == {k \in KEYS : ls[k] # Null}

\* the persisted session was complete and older than TIMEOUT
Stale(ls, t) ==
  /\ Complete(ls)
  /\ parseInt(ls[LAST_ACTIVITY]) # NaN
  /\ t - parseInt(ls[LAST_ACTIVITY]) > TIMEOUT

InitPersisted ==
  /\ token = Null
  /\ user = NullV
  /\ lastActivity = NullNum
  /\ isAuthenticated = FALSE
  /\ isTokenExpiredCache = "dirty"
  /\ shouldRefreshTokenCache = "dirty"
  /\ \E tk \in {Null, TokDotted}, us \in StoredTexts, la \in StoredActivities,
        old \in {Null, TokSanctum} :
       /\ localStorage = [k \in KEYS |->
                            CASE k = TOKEN -> tk
                              [] k = USER -> us
                              [] k = LAST_ACTIVITY -> la
                              [] OTHER -> old]
       /\ cookies = [k \in COOKIE_KEYS |-> IF k = TOKEN THEN tk ELSE us]
  /\ cache = Absent(KEYS)
  /\ isAvailable = FALSE
  /\ mode = "ok"
  /\ watching = FALSE
  /\ events = <<>>
  /\ now = StartTime
  /\ boot = NoBoot
  /\ hist = NoHist
  /\ last = NoLast

\* a plugin has run: the first one to run sees what the page load began with
Ran(plugin) ==
  [boot EXCEPT !.plugins = @ \cup {plugin},
               !.pc = "idle",
               !.stale = IF boot.plugins = {} /\ boot.pc = "idle"
                         THEN Stale(localStorage, now) ELSE @,
               !.valid = IF boot.plugins = {} /\ boot.pc = "idle"
                         THEN Complete(localStorage) /\ Fresh(localStorage, now)
                         ELSE @]

AuthPlugin ==
  /\ boot.pc = "idle"
  /\ "auth" \notin boot.plugins
  /\ LET w == authPlugin(Cur, now) IN
     /\ Becomes(w)
     /\ last' = Did("authPlugin", w)
  /\ boot' = [Ran("auth") EXCEPT !.interval = TRUE]
  /\ UNCHANGED <<mode, watching, events, now, hist>>

StoragePlugin ==
  /\ boot.pc = "idle"
  /\ "storage" \notin boot.plugins
  /\ LET r == storagePlugin(Cur, now) IN
     /\ Becomes(r.w)
     /\ last' = [Did("storagePlugin", r.w) EXCEPT
                   !.seq = IF r.awaits THEN "migrateStorageData" ELSE ""]
     /\ boot' = IF r.awaits
                THEN [Ran("storage") EXCEPT !.plugins = boot.plugins, !.pc = "awaiting",
                                            !.before = Present(localStorage)]
                ELSE Ran("storage")
     /\ watching' = ~r.awaits
  /\ UNCHANGED <<mode, events, now, hist>>

\* the timer of runCompleteMigration fires: verification, clean-up, and then
\* the plugin's watchAuthChanges()
StoragePluginResumes ==
  /\ boot.pc = "awaiting"
  /\ LET r == runCompleteMigration_resumed(Cur) IN
     /\ Becomes(r.w)
     /\ last' = [Did("runCompleteMigration", r.w) EXCEPT
                   !.seq = "migrateStorageData;verifyMigration",
                   !.verified = r.verified, !.cleaned = r.cleaned]
  /\ boot' = Ran("storage")
  /\ watching' = TRUE
  /\ UNCHANGED <<mode, events, now, hist>>

\* while the run waits, the migrated user record loses its id
CorruptUser ==
  /\ boot.pc = "awaiting"
  /\ LET w == updateUser(Cur, BadId) IN
     /\ Becomes(w)
     /\ last' = Did("updateUser", w)
  /\ UNCHANGED Env

NextStartup ==
  \/ Tick
  \/ AuthPlugin
  \/ StoragePlugin
  \/ StoragePluginResumes
  \/ CorruptUser

SpecStartup == InitPersisted /\ [][NextStartup]_vars

\* loadAuthState over what an earlier visit left in the browser
NextLoad ==
  \/ Tick
  \/ LoadAuthState
  \/ SetAuthData
  \/ UpdateLastActivity

SpecLoad == InitPersisted /\ [][NextLoad]_vars

\* another tab logs out and logs in again before this tab has handled any
\* of the notifications: the events of both writes are queued in order
OtherTabRelogin ==
  \E t \in Tokens, u \in Users :
    LET removed == [k \in KEYS |-> IF k \in STORAGE_KEYS THEN Null
                                                         ELSE localStorage[k]]
        written == [removed EXCEPT ![TOKEN] = t, ![USER] = JSONstringify(u),
                                   ![LAST_ACTIVITY] = toString(now)]
    IN /\ events = <<>>
       /\ localStorage' = written
       /\ cookies' = [cookies EXCEPT ![TOKEN] = t, ![USER] = JSONstringify(u)]
       /\ events' = Changes(KeyOrder, localStorage, removed)
                       \o Changes(KeyOrder, removed, written)
       /\ last' = Did("otherTabRelogin", Cur)
       /\ UNCHANGED <<token, user, lastActivity, isAuthenticated,
                      isTokenExpiredCache, shouldRefreshTokenCache, cache,
                      isAvailable, Aux, watching, now>>

\* a tab whose storage plugin has run on an empty durable store: the
\* storage store is initialised and the storage listener is registered
InitRace ==
  /\ token = Null
  /\ user = NullV
  /\ lastActivity = NullNum
  /\ isAuthenticated = FALSE
  /\ isTokenExpiredCache = "dirty"
  /\ shouldRefreshTokenCache = "dirty"
  /\ localStorage = Absent(KEYS)
  /\ cache = Absent(KEYS)
  /\ cookies = Absent(COOKIE_KEYS)
  /\ isAvailable = TRUE
  /\ mode = "ok"
  /\ watching = TRUE
  /\ events = <<>>
  /\ now = StartTime
  /\ boot = NoBoot
  /\ hist = NoHist
  /\ last = NoLast

\* two tabs that log in and out while notifications are in flight
NextRace ==
  \/ Login
  \/ Logout
  \/ OtherTabLogin
  \/ OtherTabLogout
  \/ OtherTabRelogin
  \/ DeliverEvent

SpecRace == InitRace /\ [][NextRace]_vars

\* legacy keys left by an earlier version, whatever the storage does
InitLegacy ==
  /\ token = Null
  /\ user = NullV
  /\ lastActivity = NullNum
  /\ isAuthenticated = FALSE
  /\ isTokenExpiredCache = "dirty"
  /\ shouldRefreshTokenCache = "dirty"
  /\ \E tk \in {Null, TokDotted}, us \in StoredTexts, la \in StoredActivities :
       localStorage = [Absent(KEYS) EXCEPT ![TOKEN] = tk, ![USER] = us,
                                           ![LAST_ACTIVITY] = la]
  /\ cache = Absent(KEYS)
  /\ cookies = Absent(COOKIE_KEYS)
  /\ isAvailable = FALSE
  /\ mode \in Modes
  /\ watching = FALSE
  /\ events = <<>>
  /\ now = StartTime
  /\ boot = NoBoot
  /\ hist = NoHist
  /\ last = NoLast

\* the legacy keys hold a token and a user text that parses to a record
\* with an id
Importable(ls) ==
  /\ TruthyStr(ls[TOKEN]) /\ TruthyStr(ls[USER])
  /\ JSONparse(ls[USER]).ok /\ TruthyProp(JSONparse(ls[USER]).val, "id")

\* a call of migrateStorageData; had: the legacy keys were importable;
\* fresh, t: the legacy activity value was numeric, and its text
MigrateStorageData ==
  \E w \in {migrateStorageData(Cur, now)} :
    /\ Becomes(w)
    /\ last' = [Did("migrateStorageData", w) EXCEPT
                  !.had = Importable(localStorage),
                  !.fresh = (TruthyStr(localStorage[LAST_ACTIVITY])
                               /\ parseInt(localStorage[LAST_ACTIVITY]) # NaN),
                  !.t = localStorage[LAST_ACTIVITY]]
    /\ UNCHANGED Env

NextLegacy ==
  \/ Tick
  \/ MigrateStorageData

SpecLegacy == InitLegacy /\ [][NextLegacy]_vars

\* a user interaction reaches the authentication plugin's listener
PluginUpdateActivity ==
  \E w \in {authPlugin_updateActivity(Cur, now)} :
    /\ Burst("authPlugin_updateActivity") < MaxBurst
    /\ Becomes(w)
    /\ last' = [Did("authPlugin_updateActivity", w) EXCEPT
                  !.authed = isAuthenticated,
                  !.burst = Burst("authPlugin_updateActivity") + 1,
                  \* setItem is called exactly when a token is stored
                  !.writes = Writes("authPlugin_updateActivity")
                               + IF TruthyStr(localStorage[TOKEN]) THEN 1 ELSE 0]
    /\ boot' = [boot EXCEPT !.timer = TRUE]
    /\ UNCHANGED <<mode, watching, events, now, hist>>

\* the store's operations in a tab whose plugin listens for interactions
NextAgree ==
  \/ Tick
  \/ SetAuthData
  \/ UpdateUser
  \/ UpdateLastActivity
  \/ ClearAuthState
  \/ LoadAuthState
  \/ PluginUpdateActivity

SpecAgree == InitRace /\ [][NextAgree]_vars

\* another tab, or another version of the application, writes the user key
OtherTabUser ==
  \E text \in StoredTexts \ {Null} :
    OtherTabWrites([localStorage EXCEPT ![USER] = text], cookies, "otherTabUser")

\* a tab that loads persisted user data and receives it from other tabs
NextMalformed ==
  \/ LoadAuthState
  \/ WatchAuthChanges
  \/ OtherTabUser
  \/ DeliverEvent

SpecMalformed == InitPersisted /\ [][NextMalformed]_vars

\* two tabs that record activity while notifications are in flight
NextActivity ==
  \/ Tick
  \/ Login
  \/ UpdateLastActivity
  \/ OtherTabLogin
  \/ OtherTabActivity
  \/ DeliverEvent

SpecActivity == InitRace /\ [][NextActivity]_vars

\* the stores of a page that has just been loaded with no session keys in
\* the durable store, after its plugins have run: init() has found the
\* storage, loadAuthState() has found nothing and no migration is needed
reloaded(w) ==
  [w EXCEPT !.token = Null, !.user = NullV, !.lastActivity = NullNum,
            !.isAuthenticated = FALSE, !.isTokenExpiredCache = "dirty",
            !.shouldRefreshTokenCache = "dirty", !.cache = Absent(KEYS),
            !.isAvailable = TRUE]

\* a tab whose two plugins have run on an empty durable store: the storage
\* listener is registered and the plugin's sessionCheckInterval is running
InitTimers ==
  /\ token = Null
  /\ user = NullV
  /\ lastActivity = NullNum
  /\ isAuthenticated = FALSE
  /\ isTokenExpiredCache = "dirty"
  /\ shouldRefreshTokenCache = "dirty"
  /\ localStorage = Absent(KEYS)
  /\ cache = Absent(KEYS)
  /\ cookies = Absent(COOKIE_KEYS)
  /\ isAvailable = TRUE
  /\ mode = "ok"
  /\ watching = TRUE
  /\ events = <<>>
  /\ now = StartTime
  /\ boot = [NoBoot EXCEPT !.plugins = {"auth", "storage"}, !.interval = TRUE]
  /\ hist = NoHist
  /\ last = NoLast

\* a tick of the plugin's sessionCheckInterval, on a route other than the
\* login route. On expiry it removes the keys, clears the interval and
\* assigns window.location.href: the page is loaded anew and its plugins
\* run on the emptied store. Without a token it clears the interval.
SessionCheckInterval ==
  /\ boot.interval
  /\ \E r \in {sessionCheck(Cur, now)} :
     \E w \in {IF r.ret = LOGIN THEN reloaded(r.w) ELSE r.w} :
        /\ Becomes(w)
        /\ last' = [Did("sessionCheckInterval", w) EXCEPT !.ret = r.ret]
        /\ boot' = [boot EXCEPT !.interval =
                      (r.ret = LOGIN \/ TruthyStr(localStorage[TOKEN]))]
  /\ UNCHANGED <<mode, watching, events, now, hist>>

\* the plugin's setInterval callback
SessionCheck ==
  LET r == sessionCheck(Cur, now) IN
  /\ Becomes(r.w)
  /\ last' = [Did("sessionCheck", r.w) EXCEPT !.ret = r.ret]
  /\ hist' = IF r.ret = LOGIN THEN Ended(localStorage[TOKEN]) ELSE hist
  /\ UNCHANGED World

\* the composable's setInterval callback
CheckSession ==
  \E r \in {checkSession(Cur, now)} :
  /\ Becomes(r.w)
  /\ last' = [Did("checkSession", r.w) EXCEPT !.ret = r.ret]
  /\ hist' = IF r.ret = LOGIN THEN Ended(token) ELSE hist
  /\ UNCHANGED World

\* a user interaction reaches the composable's listener
UpdateActivity ==
  LET w == updateActivity(Cur, now) IN
  /\ Burst("updateActivity") < MaxBurst
  /\ Becomes(w)
  /\ last' = [Did("updateActivity", w) EXCEPT
                !.authed = isAuthenticated,
                !.burst = Burst("updateActivity") + 1,
                \* updateLastActivity is called exactly when authenticated
                !.writes = Writes("updateActivity")
                             + IF isAuthenticated THEN 1 ELSE 0]
  /\ UNCHANGED Env

\* a navigation to a route guarded by the auth middleware
NavigateProtected ==
  LET r == authMiddleware(Cur, now) IN
  /\ Becomes(r.w)
  /\ last' = [Did("authMiddleware", r.w) EXCEPT !.ret = r.ret,
                                                !.late = (hist.dead # Null)]
  /\ hist' = NoHist
  /\ UNCHANGED World

\* a navigation to the login route, guarded by the guest middleware
NavigateGuest ==
  LET r == guestMiddleware(Cur) IN
  /\ Becomes(r.w)
  /\ last' = [Did("guestMiddleware", r.w) EXCEPT !.ret = r.ret,
                                                 !.late = (hist.dead # Null)]
  /\ hist' = NoHist
  /\ UNCHANGED World

\* a logged-in tab with its timers, listeners and route middleware
NextRoutes ==
  \/ Tick
  \/ Login
  \/ GetValidToken
  \/ Reload
  \/ LoadAuthState
  \/ SessionCheck
  \/ CheckSession
  \/ UpdateActivity
  \/ NavigateProtected
  \/ NavigateGuest

SpecRoutes == Init /\ [][NextRoutes]_vars

\* a tab left alone after a login: only its timers run
NextTimers ==
  \/ Tick
  \/ Login
  \/ CheckSession
  \/ SessionCheckInterval

SpecTimers ==
  /\ InitTimers /\ [][NextTimers]_vars
  /\ WF_vars(Tick) /\ WF_vars(CheckSession) /\ WF_vars(SessionCheckInterval)

\* the API client used by a logged-in or logged-out tab
\* logoutMutation with an onError that only reports the failure
logoutMutation_onSuccessOnly(w, out, t) ==
  LET r == request(w, "/auth/logout", out, t) IN
  IF r.ret = Null THEN clearAuthData(r.w)
  ELSE r.w

\* useMutation({mutationFn: apiClient.logout, onSuccess, onError}): the
\* request settles, then onSuccess or onError runs performLogout, whose
\* only effect on the session is clearAuthData
logoutMutation(w, out, t) ==
  LET r == request(w, "/auth/logout", out, t) IN
  IF r.ret = Null THEN clearAuthData(r.w)
  ELSE clearAuthData(r.w)

LogoutMutation ==
  \E o \in Outcomes :
    LET w == logoutMutation(Cur, o, now) IN
    /\ Becomes(w)
    /\ last' = [Did("logoutMutation", w) EXCEPT !.key = "/auth/logout", !.out = o,
                                                !.ret = raised(o),
                                                !.authed = isAuthenticated]
    /\ hist' = NoHist
    /\ UNCHANGED World

\* one tab that logs in, idles and logs out through the mutation
NextLogout ==
  \/ Tick
  \/ Login
  \/ LogoutMutation

SpecLogout == Init /\ [][NextLogout]_vars

\* a tab whose user logs in and out and interacts with the page: both
\* interaction listeners, the plugin's and the composable's
NextBurst ==
  \/ Tick
  \/ Login
  \/ Logout
  \/ PluginUpdateActivity
  \/ UpdateActivity

SpecBurst == InitRace /\ [][NextBurst]_vars

NextHttp ==
  \/ Tick
  \/ Login
  \/ Logout
  \/ Request

SpecHttp == Init /\ [][NextHttp]_vars

----------------------------------------------------------------------------
(* Properties                                                               *)

Cleared(w) ==
  /\ w.token = Null
  /\ w.user = NullV
  /\ w.lastActivity = NullNum
  /\ ~w.isAuthenticated
  /\ \A k \in STORAGE_KEYS : w.localStorage[k] = Null

\* C1: when loadAuthState, getValidToken or isSessionValid has run on a
\* session whose lastActivity was more than TIMEOUT ago, isAuthenticated is
\* false.
C1_NoStaleAuthenticatedAfterRead ==
  (last.op \in {"loadAuthState", "getValidToken", "isSessionValid"} /\ last.pre)
    => ~isAuthenticated

\* C2: in every state, isAuthenticated implies that token and user are
\* present.
C2_AuthenticatedHasTokenAndUser ==
  isAuthenticated => (token # Null /\ user # NullV)

\* C3: a read of isTokenExpired or shouldRefreshToken returns what its getter
\* gives for lastActivity and the time of the read, and getValidToken returns
\* null when lastActivity is more than TIMEOUT before the call.
C3_RecomputedOnEveryRead ==
  /\ last.op = "isTokenExpired"
       => last.ret = Bool(isTokenExpiredGetter(lastActivity, now))
  /\ last.op = "shouldRefreshToken"
       => last.ret = Bool(shouldRefreshTokenGetter(lastActivity, now))
  /\ (last.op = "getValidToken" /\ last.pre) => last.ret = Null

\* C4: setAuthData(t, u), then a fresh store, then loadAuthState no later
\* than TIMEOUT after the setAuthData, gives token = t, user = u and
\* isAuthenticated.
C4_RoundTrip ==
  (last.seq = "setAuthData;reload;loadAuthState" /\ now - last.since <= TIMEOUT)
    => (token = last.t /\ user = last.u /\ isAuthenticated)

C4_Witness ==
  /\ last.seq = "setAuthData;reload;loadAuthState"
  /\ now - last.since = TIMEOUT
  /\ token = last.t /\ last.t \in Tokens
  /\ user = Jane
  /\ isAuthenticated

C7_LoginScenario ==
  /\ (last.op = "login" /\ last.t = TokSanctum /\ last.u = Jane)
       => /\ localStorage[TOKEN] = TokSanctum
          /\ localStorage[USER] = JSONstringify(Jane)
          /\ AuthService_isAuthenticated(Cur, now).ret
  /\ (last.seq = "login;getValidToken" /\ last.t = TokSanctum /\ ~last.pre)
       => last.ret = TokSanctum

\* C8: after an operation that changed the store's token or user, the
\* auth_token and auth_user cookies hold the store's token and user, and are
\* absent when the store holds none.
C8_CookieMirrorFollowsStore ==
  (last.op \in {"login", "logout", "updateUser", "clearAuthState", "getValidToken",
                "loadAuthState", "storageEvent"} /\ last.chg)
    => /\ cookies[TOKEN] = token
       /\ cookies[USER] = IF user = NullV THEN Null ELSE JSONstringify(user)

\* C9: every failing request raises an error whose message parses as an
\* envelope with success false, a non-empty message, and status 0 for a
\* rejected fetch and the HTTP status for an HTTP failure.
C9_ErrorShape ==
  (last.op = "request" /\ last.out.kind # "ok")
    => LET p == JSONparse(last.ret) IN
       /\ p.ok /\ p.val.t = "obj"
       /\ Prop(p.val, "success") = "false"
       /\ Prop(p.val, "message") \notin FalsyLexemes
       /\ Prop(p.val, "status") = IF last.out.kind = "reject" THEN "0"
                                  ELSE NumLexeme(last.out.status)

\* C10: needsMigration() returns false whenever the store holds a token, and
\* returns true only when the durable token key is present and the store
\* holds no token.
C10_MigrationGate ==
  last.op = "needsMigration"
    => /\ TruthyStr(token) => last.ret = Bool(FALSE)
       /\ last.ret = Bool(TRUE) => (localStorage[TOKEN] # Null /\ token = Null)

C10_Witness ==
  /\ last.op = "needsMigration"
  /\ TruthyStr(token)
  /\ TruthyStr(localStorage[TOKEN])
  /\ last.ret = Bool(FALSE)

StorageOps == {"checkAvailability", "getItem", "setItem", "removeItem", "clear",
               "getJSON", "setJSON"}

\* C14: no operation of the storage store raises, and when the underlying
\* store fails the operation returns false or null and leaves the durable
\* store and the in-memory mirror as they were before the call.
C14_StorageNeverRaises ==
  last.op \in StorageOps
    => /\ ~last.threw
       /\ last.failed => (last.ret \in {False, Null} /\ last.kept)

\* C11: in a run of runCompleteMigration whose verifyMigration() returned
\* false, cleanupOldStorage() was not invoked and every durable key present
\* before the run is still present; cleanupOldStorage() is invoked only
\* after migrateStorageData() and a verifyMigration() that returned true.
C11_MigrationNonDestructive ==
  last.op = "runCompleteMigration"
    => /\ ~last.verified
            => (~last.cleaned /\ \A k \in boot.before : localStorage[k] # Null)
       /\ last.cleaned
            => (last.verified /\ last.seq = "migrateStorageData;verifyMigration")

C11_Witness ==
  /\ last.op = "runCompleteMigration"
  /\ ~last.verified
  /\ ~last.cleaned
  /\ "old_auth_token" \in boot.before
  /\ localStorage["old_auth_token"] # Null

\* C16: when a page load began with a persisted token, user and
\* last-activity older than TIMEOUT, then once both client plugins have run,
\* in either order, the store is unauthenticated and the three durable keys
\* are removed.
C16_ExpiredSessionNotRevivedAtStartup ==
  (boot.plugins = {"auth", "storage"} /\ boot.stale
     /\ last.op \in {"authPlugin", "storagePlugin", "runCompleteMigration"})
    => /\ ~isAuthenticated
       /\ \A k \in STORAGE_KEYS : localStorage[k] = Null

\* C12: loadAuthState makes the store authenticated only when the persisted
\* token, user and activity value are all present and the activity is no
\* more than TIMEOUT old; when all three are present and the activity is
\* stale or is not a number, it leaves the store cleared and the three
\* durable keys removed.
C12_LoadFailSafe ==
  last.op = "loadAuthState"
    => /\ (isAuthenticated /\ ~last.authed) => (last.had /\ last.fresh)
       /\ (last.had /\ ~last.fresh) => Cleared(Cur)

C12_Witness ==
  /\ last.op = "loadAuthState"
  /\ last.had /\ ~last.fresh
  /\ now = StartTime
  /\ Cleared(Cur)

PublicEndpoints == {"/auth/signup", "/auth/login", "/auth/forgot-password",
                    "/auth/reset-password"}

\* C13: a request carries an Authorization header only when its endpoint is
\* one of the four protected endpoints and a token was available; a request
\* to signup, login, forgot-password or reset-password never carries one.
C13_HeaderOnlyOnProtected ==
  last.op = "request"
    => /\ last.hdr # Null => (last.key \in ProtectedEndpoints /\ TruthyStr(last.hdr))
       /\ last.key \in PublicEndpoints => last.hdr = Null

C13_Witness ==
  /\ last.op = "request"
  /\ last.key = "/auth/login"
  /\ isAuthenticated /\ token \in Tokens /\ cookies[TOKEN] = token
  /\ last.hdr = Null

\* C15: once getValidToken() has ended a session for expiry, no later
\* request to a protected endpoint carries that session's token, until the
\* next setAuthData.
C15_ExpiredTokenNeverSent ==
  (last.op = "request" /\ last.late /\ last.key \in ProtectedEndpoints)
    => last.hdr # hist.dead

\* C17: a user interaction that reaches updateLastActivity() after the
\* session's inactivity has exceeded the timeout does not revive it:
\* getValidToken() and isSessionValid() still report it expired.
C17_ExpiredSessionNotRevived ==
  (last.op = "updateActivity" /\ last.authed /\ last.pre)
    => /\ getValidToken(Cur, now).ret = Null
       /\ ~isSessionValid(Cur, now).ret

\* C20: after an expiry path has ended the session, the next navigation
\* to a protected route is redirected to the login route and the next
\* navigation to the login route is not redirected to the dashboard.
C20_ExpiredSessionLeavesProtectedRoutes ==
  /\ (last.op = "authMiddleware" /\ last.late) => last.ret = LOGIN
  /\ (last.op = "guestMiddleware" /\ last.late) => last.ret # DASHBOARD

\* C18: handling a storage-change notification changes only this tab's
\* in-memory fields; it leaves every durable key as it was, so a session
\* written after a removal survives the handling of the removal's event.
C18_HandlingKeepsDurableKeys ==
  last.op = "storageEvent" => last.durable

\* C19: when every storage-change notification has been delivered and
\* handled, this tab's in-memory token and user are those of the durable
\* store.
C19_QuiescentTabsAgree ==
  (last.op = "storageEvent" /\ events = <<>>)
    => /\ token = localStorage[TOKEN]
       /\ IF TruthyObj(user) THEN JSONstringify(user) = localStorage[USER]
                             ELSE localStorage[USER] = Null

\* C21: an authenticated session left without interaction for longer than
\* the timeout is eventually cleared by the timers (store unauthenticated,
\* durable keys removed), unless a new login starts another session first.
C21_EventualExpiry ==
  (isAuthenticated /\ Expired(lastActivity, now))
    ~> (Cleared(Cur) \/ last.op = "login")

\* C22: when the storage plugin's startup (initAuthState, then
\* runCompleteMigration) has run on the persisted keys, the store is
\* authenticated only if they held a token, a user and an unexpired
\* last-activity value when startup began.
C22_StartupAuthenticatesOnlyValid ==
  (boot.plugins = {"storage"} /\ boot.pc = "idle"
     /\ last.op \in {"storagePlugin", "runCompleteMigration"})
    => (isAuthenticated => boot.valid)

\* C23: while a session lasts, no step decreases the in-memory
\* lastActivity (a cross-tab notification included), and no step decreases
\* the durable auth_last_activity value.
C23_ActivityOnlyAdvances ==
  [][ /\ (TruthyNum(lastActivity) /\ TruthyNum(lastActivity'))
           => lastActivity' >= lastActivity
      /\ (TruthyStr(localStorage[LAST_ACTIVITY])
            /\ TruthyStr(localStorage'[LAST_ACTIVITY]))
           => parseInt(localStorage'[LAST_ACTIVITY])
                >= parseInt(localStorage[LAST_ACTIVITY]) ]_vars

\* C24: a persisted user value that is not valid JSON or has no id does not
\* authenticate the store in loadAuthState, and a cross-tab user value of
\* that kind is dropped by the handler: the in-memory user always has an id.
C24_MalformedUserNeverInMemory ==
  /\ last.op = "loadAuthState" => (isAuthenticated => TruthyProp(user, "id"))
  /\ (last.op = "storageEvent" /\ last.key = USER)
       => (TruthyObj(user) => TruthyProp(user, "id"))

\* C25: a request to an unprotected endpoint leaves the store's token, user,
\* lastActivity and isAuthenticated and the durable keys as they were.
C25_PublicRequestChangesNothing ==
  (last.op = "request" /\ last.key \in PublicEndpoints)
    => (last.still /\ last.durable)

\* the in-memory token, user and lastActivity are the decoded values of the
\* durable keys, and absent exactly when the key is absent
Agree(w) ==
  /\ w.token = w.localStorage[TOKEN]
  /\ IF TruthyObj(w.user)
     THEN /\ w.localStorage[USER] # Null
          /\ JSONparse(w.localStorage[USER]).ok
          /\ JSONparse(w.localStorage[USER]).val = w.user
     ELSE w.localStorage[USER] = Null
  /\ IF w.lastActivity = NullNum
     THEN w.localStorage[LAST_ACTIVITY] = Null
     ELSE /\ w.localStorage[LAST_ACTIVITY] # Null
          /\ parseInt(w.localStorage[LAST_ACTIVITY]) = w.lastActivity

\* C26: with storage available, after setAuthData, updateUser,
\* updateLastActivity, clearAuthState or a successful loadAuthState the
\* in-memory session and the durable keys agree.
C26_MemoryAgreesWithStorage ==
  (\/ last.op \in {"setAuthData", "updateUser", "updateLastActivity", "clearAuthState"}
   \/ (last.op = "loadAuthState" /\ last.had /\ last.fresh))
    => Agree(Cur)

\* C27: migrateStorageData changes the store only when the legacy user
\* parses to a record with an id (otherwise the store and the durable keys
\* stay as they were), and after an import with a numeric legacy activity
\* value the durable activity key holds that value verbatim.
C27_MigrateImportsOnlyValid ==
  last.op = "migrateStorageData"
    => /\ ~last.had => (last.still /\ last.durable)
       /\ ~last.still => (TruthyProp(user, "id") /\ isAuthenticated)
       /\ (last.had /\ last.fresh) => localStorage[LAST_ACTIVITY] = last.t

C27_Witness ==
  /\ last.op = "migrateStorageData" /\ last.had /\ last.fresh /\ ~last.still
  /\ mode = "ok"
  /\ token = localStorage[TOKEN]
  /\ localStorage[LAST_ACTIVITY] = last.t
  /\ lastActivity # parseInt(last.t)

\* C28: once the storage plugin's runCompleteMigration has completed,
\* needsMigration() is false; and a call of runCompleteMigration made while
\* needsMigration() is false returns at once and changes nothing.
C28_MigrationRunsOnce ==
  /\ ("storage" \in boot.plugins /\ boot.pc = "idle"
        /\ last.op \in {"storagePlugin", "runCompleteMigration"})
       => ~needsMigration(Cur)
  /\ ~needsMigration(Cur)
       => (runCompleteMigration(Cur, now).w = Cur /\ ~runCompleteMigration(Cur, now).awaits)

\* C29: once the logout request has settled, whether it succeeded, was
\* answered with an HTTP error or was rejected by the network, the auth
\* cookies are cleared, the session store is cleared and the durable auth
\* keys are removed.
C29_LogoutAlwaysClears ==
  last.op = "logoutMutation"
    => /\ cookies[TOKEN] = Null /\ cookies[USER] = Null
       /\ Cleared(Cur)

C29_Witness ==
  /\ last.op = "logoutMutation" /\ last.authed
  /\ last.out.kind = "reject" /\ last.ret # Null
  /\ cookies[TOKEN] = Null /\ Cleared(Cur)

\* C30: the plugin's listener coalesces writes, a burst of N >= 2
\* interaction events between two clock steps causing fewer than N writes
\* of the last-activity key; the composable's listener performs one
\* updateLastActivity write per event while authenticated (memory and
\* durable key then hold the time of the event) and none otherwise.
C30_InteractionWritesCoalesced ==
  /\ (last.op = "authPlugin_updateActivity" /\ last.burst >= 2)
       => last.writes < last.burst
  /\ last.op = "updateActivity"
       => /\ last.writes = IF last.authed THEN last.burst ELSE 0
          /\ last.authed => (lastActivity = now
                               /\ localStorage[LAST_ACTIVITY] = toString(now))
          /\ ~last.authed => (last.still /\ last.durable)

====
